---- MODULE Spec2Model ----
(***************************************************************************)
(* Model of EtherCatController (ethercat_controller.rs): the cyclic loop   *)
(* thread spawned by open(), the two condition-variable gates, the bounded *)
(* command channel and the register API called by client threads.          *)
(*                                                                         *)
(* Every critical section of the source (a mutex or rwlock held from lock  *)
(* to unlock, a channel operation) is one atomic action; Condvar::wait is  *)
(* split in its two halves (release+block, wake+reacquire).                *)
(***************************************************************************)
EXTENDS Integers, Sequences, FiniteSets, TLC

\* ---------------------------------------------------------------- bounds
\* Largest byte value exchanged (bytes are 0..MaxByte).
MaxByte == 1
\* Number of client threads of the general specification.
NClients == 2
\* Writes a run of the general specification submits at most.
MaxWrites == 1
\* Writes a run of the queue specification submits at most.
MaxQueueWrites == 6
\* Values a set_pdo_registers call is given at most.
MaxArrayLen == 3
\* set_pdo_registers calls a run of the array specification makes at most.
MaxArrayCalls == 2
\* Slaves on a bus of the name lookup specification, at most.
MaxSlaves == 3

\* ------------------------------------------------------ program constants
\* sync_channel::<(Range<usize>, Vec<u8>)>(5)
QueueCap == 5
\* m_state.al_states == 8 (operational)
AlOp == 8

\* The history variables nsub and applied stop growing here, past what a run
\* with a bounded number of writes reaches.
HistCap == MaxQueueWrites + 1

Bytes == 0..MaxByte
Clients == 1..NClients
\* aggregate application-layer states the bus can report (INIT, PREOP, SAFEOP, OP)
AlStates == {1, 2, 4, AlOp}

\* Option<T>
None == <<>>
Some(x) == <<x>>

\* ------------------------------------------------------------ bus layout
\* What the bus master reports during enumeration: one slave at position 0
\* with two sync managers; the first PDO holds the entry "X" twice (an
\* array of two records), the second PDO the entry "Y".  byte is the offset
\* register_pdo_entry returned for the entry.
BusSlaves ==
    << [name |-> "epos",
        pdos |-> << << [idx |-> 1, name |-> "X", bit_len |-> 8, byte |-> 0],
                       [idx |-> 2, name |-> "X", bit_len |-> 8, byte |-> 1] >>,
                    << [idx |-> 3, name |-> "Y", bit_len |-> 8, byte |-> 2] >> >>] >>

\* length of the domain's process data
ImageLen == 3
\* bytes (1-based) the bus exchange overwrites: the inputs, registered by the
\* PDOs after the first one
InputBytes == {3}

RECURSIVE Flatten(_)
Flatten(ss) == IF ss = <<>> THEN <<>> ELSE Head(ss) \o Flatten(Tail(ss))

\* the entries of slave i in registration order (for pdo in &pdos, for entry in &pdo.entries)
RegisteredEntries(i) == Flatten(BusSlaves[i + 1].pdos)

\* entry_offsets of slave i: name -> records in registration order
EntryOffsets(i) ==
    LET es == RegisteredEntries(i)
        names == {es[k].name : k \in DOMAIN es}
    IN [n \in names |-> SelectSeq(es, LAMBDA e : e.name = n)]

\* SlaveOffsets built by init_master
offsets == [p \in 0..(Len(BusSlaves) - 1) |-> EntryOffsets(p)]

\* whether offsets[&slave_pos][register][index] exists; indexing panics otherwise
HasReg(slave_id, register, index) ==
    /\ slave_id \in DOMAIN offsets
    /\ register \in DOMAIN offsets[slave_id]
    /\ (index + 1) \in DOMAIN offsets[slave_id][register]

\* addr..addr + bytes_len, as [lo, hi)
get_reg_addr_range(slave_id, register, index) ==
    LET rec == offsets[slave_id][register][index + 1]
    IN [lo |-> rec.byte, hi |-> rec.byte + (rec.bit_len \div 8)]

\* data[range].to_vec()
Slice(buf, r) == [k \in 1..(r.hi - r.lo) |-> buf[r.lo + k]]

\* a copy_from_slice that copies nothing
PatchNothing(buf, r, value) == buf

\* data[range].copy_from_slice(&value), for a value of the range's length
Patch(buf, r, value) ==
    [k \in DOMAIN buf |-> IF k > r.lo /\ k <= r.hi THEN value[k - r.lo] ELSE buf[k]]

\* arguments the clients call the register API with (valid and invalid ones)
RegArgs == { <<0, "X", 0>>, <<0, "X", 1>>, <<0, "Y", 0>>,   \* registered
             <<0, "X", 2>>,                                 \* index out of range
             <<0, "Z", 0>>,                                 \* unknown entry name
             <<1, "X", 0>> }                                \* unknown device
\* values written: one byte, or an empty value (a length the range does not have)
ValueArgs == {<<b>> : b \in Bytes} \cup {<<>>}

VARIABLES
    data,        \* the domain's process data (exchange buffer) of the loop thread
    data_lock,   \* RwLock<Option<Vec<u8>>>: the published snapshot
    ready_flag,  \* the bool of ready_condvar
    cycle_flag,  \* the bool of cycle_condvar
    is_ready,    \* the loop's local is_ready
    cmd_buff,    \* the sync_channel: entries [range, value, id] in queue order
    lpc,         \* position of the loop thread; "dead" once it panicked
    pc,          \* position of each client thread
    pend,        \* per client: the entries its current call has still to send
    rrem,        \* per client: the ranges its current get_pdo_registers has still to read
    racc,        \* per client: the values its current get_pdo_registers has read so far
    nsub,        \* history: number of entries accepted into cmd_buff so far
    applied,     \* history: ids of the entries copied onto data, in order
    last_acc,    \* history: per byte, the value of the last accepted entry covering it (-1: none)
    wnc_sig,     \* history: the cycle gate was signalled since the client's wait_for_next_cycle began
    wnc_pub,     \* history: a snapshot was published since the client's wait_for_next_cycle began
    wnc_stale,   \* history: the client returned from wait_for_next_cycle and nothing was published since
    rt,          \* the round-trip scenario: its position, what it wrote and what it read back
    wa,          \* history of set_pdo_registers: the last call's arguments and what the channel accepted from it
    opening,     \* open(): the driver call it is at, and how it ended
    rmix,        \* history: per client, a snapshot was published between two element reads of its get_pdo_registers
    nm           \* the name lookup scenario: the bus, the id looked up, the name and the id found

vars == <<data, data_lock, ready_flag, cycle_flag, is_ready, cmd_buff, lpc,
          pc, pend, rrem, racc, nsub, applied, last_acc, wnc_sig, wnc_pub, wnc_stale,
          rt, wa, opening, rmix, nm>>

\* the variables the scenarios and call histories of the specifications keep
scen == <<rt, wa, opening, rmix, nm>>
besidesRt == <<wa, opening, rmix, nm>>
besidesWa == <<rt, opening, rmix, nm>>
besidesOpening == <<rt, wa, rmix, nm>>
besidesRmix == <<rt, wa, opening, nm>>
besidesNm == <<rt, wa, opening, rmix>>

\* the state of the controller, of the loop thread and of the calls under way
progVars == <<data, data_lock, ready_flag, cycle_flag, is_ready, cmd_buff, lpc,
              pc, pend, rrem, racc, nsub, applied, last_acc, wnc_sig, wnc_pub, wnc_stale>>

loopVars == <<data, data_lock, ready_flag, cycle_flag, is_ready, lpc>>
histVars == <<nsub, applied, last_acc, wnc_sig, wnc_pub, wnc_stale>>
readVars == <<rrem, racc>>
wncVars == <<wnc_sig, wnc_pub, wnc_stale>>

\* what a read returns: nothing, the bytes, or no return at all (a panic)
RetNone == [tag |-> "None", val |-> <<>>]
RetSome(v) == [tag |-> "Some", val |-> v]
RetPanic == [tag |-> "Panic", val |-> <<>>]

\* no set_pdo_registers call was made yet
WaStart == [calls |-> 0, reg |-> <<>>, vals |-> <<>>, acc |-> <<>>]

\* the round-trip scenario before it began
RtStart == [phase |-> "start", cycled |-> FALSE, waits |-> 0, left |-> 0,
            reg |-> <<>>, val |-> <<>>, got |-> RetNone]

\* the driver calls of init_master for slave i (1-based), in program order
SmSteps(pdo) == <<"get_sync", "get_pdo">> \o [k \in DOMAIN pdo |-> "get_pdo_entry"]
PdoSteps(pdo) == <<"config_sm_pdos">> \o [k \in DOMAIN pdo |-> "register_pdo_entry"]
SlaveSteps(i) ==
    LET pdos == BusSlaves[i].pdos
    IN <<"get_slave_info">>
       \o Flatten([j \in DOMAIN pdos |-> SmSteps(pdos[j])])
       \o <<"configure_slave">>
       \o Flatten([j \in DOMAIN pdos |-> PdoSteps(pdos[j])])
       \o <<"get_config_info", "slave_position">>

\* the fallible steps of open(), init_master included, in program order
OpenSteps ==
    <<"Master::open", "reserve", "create_domain", "get_info">>
    \o Flatten([i \in DOMAIN BusSlaves |-> SlaveSteps(i)])
    \o <<"activate">>

\* the steps whose result is unwrapped; the others hand their error to the
\* caller with `?` (or return Err, for a slave without a position)
Unwrapped == {"get_info", "get_slave_info", "get_sync", "get_pdo", "get_pdo_entry"}

\* how open() ends when the step fails
FailureOf(step) == IF step \in Unwrapped THEN "Panic" ELSE "Err"

\* open() before its first driver call, and after it returned Ok
OpenStart == [step |-> 1, res |-> "running"]
Opened == [step |-> Len(OpenSteps) + 1, res |-> "Ok"]

\* the names the slaves of the bus report, by position
BusNames == [i \in DOMAIN BusSlaves |-> BusSlaves[i].name]

\* the name lookup scenario before it began, on a bus reporting these names
NmStart(bus) == [bus |-> bus, phase |-> "start", id |-> 0, name |-> None, back |-> None]

\* the state in which the loop thread is at l, open() is at o and the name
\* lookup scenario at n
InitWith(l, o, n) ==
    /\ data = [k \in 1..ImageLen |-> 0]
    /\ data_lock = None
    /\ ready_flag = FALSE
    /\ cycle_flag = FALSE
    /\ is_ready = FALSE
    /\ cmd_buff = <<>>
    /\ lpc = l
    /\ pc = [c \in Clients |-> "idle"]
    /\ pend = [c \in Clients |-> <<>>]
    /\ rrem = [c \in Clients |-> <<>>]
    /\ racc = [c \in Clients |-> <<>>]
    /\ nsub = 0
    /\ applied = <<>>
    /\ last_acc = [k \in 1..ImageLen |-> -1]
    /\ wnc_sig = [c \in Clients |-> FALSE]
    /\ wnc_pub = [c \in Clients |-> FALSE]
    /\ wnc_stale = [c \in Clients |-> FALSE]
    /\ rt = RtStart
    /\ wa = WaStart
    /\ opening = o
    /\ rmix = [c \in Clients |-> FALSE]
    /\ nm = n

\* open() returned the controller and the loop thread was spawned
Init == InitWith("receive", Opened, NmStart(BusNames))

\* open() was called
InitOpen == InitWith("unspawned", OpenStart, NmStart(BusNames))


\* ------------------------------------------------------------ primitives
\* a notify_one that wakes nobody
NotifyNobody(waiting, woken) == pc' = pc

\* Condvar::notify_one on a condition variable whose waiters are the clients
\* at `waiting`: one of them (any) is woken, none if nobody waits.
NotifyOne(waiting, woken) ==
    IF \E c \in Clients : pc[c] = waiting
    THEN \E c \in Clients : pc[c] = waiting /\ pc' = [pc EXCEPT ![c] = woken]
    ELSE pc' = pc

\* a failed call after which the loop starts its iteration over
LoopRetry ==
    /\ lpc' = "receive"
    /\ cmd_buff' = cmd_buff

\* The loop thread panics (an unwrap of Err, a slice length mismatch): the
\* thread ends and its captured receiver rx is dropped with what it holds.
LoopPanic ==
    /\ lpc' = "dead"
    /\ cmd_buff' = <<>>

\* the process data after one receive/process/queue: the bus overwrites the
\* input bytes with what the slaves sent and leaves the output bytes as they are
BusExchange(buf, inp) ==
    [k \in DOMAIN buf |-> IF k \in InputBytes THEN inp[k] ELSE buf[k]]

\* a try_recv that hands out the newest entry
RecvNewest(q) == Len(q)

\* which queued entry rx.try_recv() hands out: the oldest
RecvIndex(q) == 1

\* history: one more entry accepted, one more id applied
CountUp(n) == IF n < HistCap THEN n + 1 ELSE n
Noted(ids, id) == IF Len(ids) < HistCap THEN Append(ids, id) ELSE ids

RemoveAt(q, i) == [k \in 1..(Len(q) - 1) |-> IF k < i THEN q[k] ELSE q[k + 1]]

\* whether copy_from_slice accepts the value for the range
FitsRange(e) == Len(e.value) = e.range.hi - e.range.lo /\ e.range.hi <= ImageLen

\* -------------------------------------------------------- the cyclic loop
\* master.receive(); domain.process(); domain.queue(); domain_data()
Receive ==
    /\ lpc = "receive"
    /\ \/ /\ \E inp \in [InputBytes -> Bytes] : data' = BusExchange(data, inp)
          /\ lpc' = "publish"
          /\ UNCHANGED cmd_buff
       \/ /\ LoopPanic
          /\ UNCHANGED data
    /\ UNCHANGED <<data_lock, ready_flag, cycle_flag, is_ready, pc, pend, readVars, histVars>>

\* a publish that stores nothing
SnapshotAbsent == None

\* the snapshot the loop stores under the write lock: a copy of the process data
Snapshot == Some(data)

\* an iteration that goes on without storing a snapshot
PublishSkipped ==
    /\ lpc = "publish"
    /\ lpc' = "signal"
    /\ UNCHANGED <<data, data_lock, ready_flag, cycle_flag, is_ready, cmd_buff, pc, pend,
                   readVars, histVars>>

\* *write_guard = Some(data.to_vec())
Publish ==
    /\ lpc = "publish"
    /\ data_lock' = Snapshot
    /\ lpc' = "signal"
    /\ wnc_pub' = [c \in Clients |-> pc[c] \in {"cycle_wait", "cycle_relock"}]
    /\ wnc_stale' = [c \in Clients |-> FALSE]
    /\ UNCHANGED <<data, ready_flag, cycle_flag, is_ready, cmd_buff, pc, pend, readVars,
                   nsub, applied, last_acc, wnc_sig>>

\* *next_cycle = true; cvar.notify_one()
Signal ==
    /\ lpc = "signal"
    /\ cycle_flag' = TRUE
    /\ NotifyOne("cycle_wait", "cycle_relock")
    /\ lpc' = "drain"
    /\ wnc_sig' = [c \in Clients |-> pc[c] \in {"cycle_wait", "cycle_relock"}]
    /\ UNCHANGED <<data, data_lock, ready_flag, is_ready, cmd_buff, pend, readVars,
                   nsub, applied, last_acc, wnc_pub, wnc_stale>>

\* a drain whose writes land in the published snapshot too (the snapshot
\* sharing the buffer instead of being a copy of it)
DrainAliased ==
    /\ lpc = "drain"
    /\ \/ /\ cmd_buff = <<>>
          /\ lpc' = "send"
          /\ UNCHANGED <<data, data_lock, cmd_buff, applied>>
       \/ /\ cmd_buff # <<>>
          /\ LET e == cmd_buff[1]
             IN IF FitsRange(e)
                THEN /\ data' = Patch(data, e.range, e.value)
                     /\ data_lock' = IF data_lock = None THEN None ELSE Some(data')
                     /\ cmd_buff' = Tail(cmd_buff)
                     /\ applied' = Noted(applied, e.id)
                     /\ UNCHANGED lpc
                ELSE /\ LoopPanic
                     /\ UNCHANGED <<data, data_lock, applied>>
    /\ UNCHANGED <<ready_flag, cycle_flag, is_ready, pc, pend, readVars,
                   nsub, last_acc, wncVars>>

\* a drain that drops an entry of the wrong length and goes on
DrainDropsMisfit ==
    /\ lpc = "drain"
    /\ \/ /\ cmd_buff = <<>>
          /\ lpc' = "send"
          /\ UNCHANGED <<data, cmd_buff, applied>>
       \/ /\ cmd_buff # <<>>
          /\ LET e == cmd_buff[1]
             IN /\ data' = IF FitsRange(e) THEN Patch(data, e.range, e.value) ELSE data
                /\ cmd_buff' = Tail(cmd_buff)
                /\ applied' = Noted(applied, e.id)
                /\ UNCHANGED lpc
    /\ UNCHANGED <<data_lock, ready_flag, cycle_flag, is_ready, pc, pend, readVars,
                   nsub, last_acc, wncVars>>

\* one turn of: while let Ok((reg_addr_range, value)) = rx.try_recv() { copy_from_slice }
Drain ==
    /\ lpc = "drain"
    /\ \/ /\ cmd_buff = <<>>
          /\ lpc' = "send"
          /\ UNCHANGED <<data, cmd_buff, applied>>
       \/ /\ cmd_buff # <<>>
          /\ LET i == RecvIndex(cmd_buff)
                 e == cmd_buff[i]
             IN IF FitsRange(e)
                THEN /\ data' = Patch(data, e.range, e.value)
                     /\ cmd_buff' = RemoveAt(cmd_buff, i)
                     /\ applied' = Noted(applied, e.id)
                     /\ UNCHANGED lpc
                ELSE /\ LoopPanic
                     /\ UNCHANGED <<data, applied>>
    /\ UNCHANGED <<data_lock, ready_flag, cycle_flag, is_ready, pc, pend, readVars,
                   nsub, last_acc, wncVars>>

\* master.send().unwrap()
Send ==
    /\ lpc = "send"
    /\ \/ lpc' = "ready_check" /\ UNCHANGED cmd_buff
       \/ LoopPanic
    /\ UNCHANGED <<data, data_lock, ready_flag, cycle_flag, is_ready, pc, pend, readVars,
                   histVars>>

\* a test that takes a bus with its link up for an operational one
BusLinkUp(link_up, al_states) == link_up

\* m_state.link_up && m_state.al_states == 8
BusOperational(link_up, al_states) == link_up /\ al_states = AlOp

\* the body of `if !is_ready` when master.state() reported (link_up, al_states)
StateQuery(link_up, al_states) ==
    /\ ~is_ready
    /\ IF BusOperational(link_up, al_states)
       THEN /\ ready_flag' = TRUE
            /\ NotifyOne("ready_wait", "ready_relock")
            /\ is_ready' = TRUE
       ELSE UNCHANGED <<ready_flag, is_ready, pc>>
    /\ lpc' = "receive"
    /\ UNCHANGED cmd_buff

\* if !is_ready { master.state(); if link_up && al_states == 8 { *ready = true;
\* notify_one(); is_ready = true } }; thread::sleep(cycle_period)
ReadyCheck ==
    /\ lpc = "ready_check"
    /\ \/ /\ is_ready
          /\ lpc' = "receive"
          /\ UNCHANGED <<ready_flag, is_ready, pc, cmd_buff>>
       \/ \E link_up \in BOOLEAN, al_states \in AlStates : StateQuery(link_up, al_states)
       \/ /\ ~is_ready
          /\ LoopPanic
          /\ UNCHANGED <<ready_flag, is_ready, pc>>
    /\ UNCHANGED <<data, data_lock, cycle_flag, pend, readVars, histVars>>


\* ----------------------------------------------------------- the clients
\* wait_for_ready takes self by value: it runs only while no other call on
\* the controller is in progress, and no other call starts while it runs.
InWaitForReady(c) == pc[c] \in {"ready_wait", "ready_relock"}
CanCall(c) == pc[c] = "idle" /\ \A o \in Clients : ~InWaitForReady(o)
CanMove(c) == pc[c] = "idle" /\ \A o \in Clients \ {c} : pc[o] \in {"idle", "panicked"}

\* get_pdo_register: what read returns in the current state
ReadResult(slave_id, register, index) ==
    IF ~HasReg(slave_id, register, index) THEN RetPanic
    ELSE IF data_lock = None THEN RetNone
    ELSE RetSome(Slice(data_lock[1], get_reg_addr_range(slave_id, register, index)))

\* get_pdo_register(slave_id, register, index): returns ReadResult, or panics
\* in get_reg_addr_range before any lock is taken
Read(c, slave_id, register, index) ==
    /\ CanCall(c)
    /\ pc' = [pc EXCEPT ![c] = IF HasReg(slave_id, register, index) THEN "idle" ELSE "panicked"]
    /\ UNCHANGED <<loopVars, cmd_buff, pend, readVars, histVars>>

\* whether offsets[&slave_pos][register] exists
HasName(slave_id, register) ==
    slave_id \in DOMAIN offsets /\ register \in DOMAIN offsets[slave_id]

\* get_reg_addr_ranges: the ranges of all records of the name, in order
get_reg_addr_ranges(slave_id, register) ==
    [k \in DOMAIN offsets[slave_id][register] |-> get_reg_addr_range(slave_id, register, k - 1)]

\* get_pdo_registers up to its first read: the ranges are resolved
ReadArrayBegin(c, slave_id, register) ==
    /\ CanCall(c)
    /\ IF HasName(slave_id, register)
       THEN /\ pc' = [pc EXCEPT ![c] = "reading"]
            /\ rrem' = [rrem EXCEPT ![c] = get_reg_addr_ranges(slave_id, register)]
       ELSE /\ pc' = [pc EXCEPT ![c] = "panicked"]
            /\ UNCHANGED rrem
    /\ UNCHANGED <<loopVars, cmd_buff, pend, racc, histVars>>

\* what get_pdo_registers returns when its next read ends it: nothing at the
\* first read that finds no snapshot, the values after the last range
ReadArrayReturns(c) == data_lock = None \/ Len(rrem[c]) = 1
ReadArrayResult(c) ==
    IF data_lock = None THEN RetNone
    ELSE RetSome(Append(racc[c], Slice(data_lock[1], Head(rrem[c]))))

\* one element of get_pdo_registers: the read lock is taken for this range alone
ReadArrayStep(c) ==
    /\ pc[c] = "reading"
    /\ IF ReadArrayReturns(c)
       THEN /\ pc' = [pc EXCEPT ![c] = "idle"]
            /\ rrem' = [rrem EXCEPT ![c] = <<>>]
            /\ racc' = [racc EXCEPT ![c] = <<>>]
       ELSE /\ racc' = [racc EXCEPT ![c] = Append(@, Slice(data_lock[1], Head(rrem[c])))]
            /\ rrem' = [rrem EXCEPT ![c] = Tail(@)]
            /\ UNCHANGED pc
    /\ UNCHANGED <<loopVars, cmd_buff, pend, histVars>>

\* a channel with no bound
HasSpaceAlways(q) == TRUE

\* whether the channel takes one more entry
HasSpace(q) == Len(q) < QueueCap

\* the channel after it accepted the entry
Accept(q, e) == Append(q, [range |-> e.range, value |-> e.value, id |-> CountUp(nsub)])

\* history: the last accepted value of each byte, after the entry was accepted
Accepted(e) ==
    IF FitsRange(e) THEN Patch(last_acc, e.range, e.value) ELSE last_acc

\* set_pdo_register(slave_id, register, index, value): the range is resolved
\* (indexing panics on an unknown device, name or index) and the entry sent;
\* send fails (and the unwrap panics) once the receiver is gone, and blocks
\* while the channel is full
Write(c, slave_id, register, index, value) ==
    /\ CanCall(c)
    /\ IF ~HasReg(slave_id, register, index) \/ lpc = "dead"
       THEN /\ pc' = [pc EXCEPT ![c] = "panicked"]
            /\ UNCHANGED <<pend, cmd_buff, nsub, last_acc>>
       ELSE LET e == [range |-> get_reg_addr_range(slave_id, register, index), value |-> value]
            IN IF HasSpace(cmd_buff)
               THEN /\ cmd_buff' = Accept(cmd_buff, e)
                    /\ nsub' = CountUp(nsub)
                    /\ last_acc' = Accepted(e)
                    /\ UNCHANGED <<pc, pend>>
               ELSE /\ pend' = [pend EXCEPT ![c] = <<e>>]
                    /\ pc' = [pc EXCEPT ![c] = "sending"]
                    /\ UNCHANGED <<cmd_buff, nsub, last_acc>>
    /\ UNCHANGED <<loopVars, readVars, applied, wncVars>>

\* a send that blocked goes on: the channel has room again, or the receiver is gone
SendOne(c) ==
    /\ pc[c] = "sending"
    /\ IF lpc = "dead"
       THEN /\ pc' = [pc EXCEPT ![c] = "panicked"]
            /\ pend' = [pend EXCEPT ![c] = <<>>]
            /\ UNCHANGED <<cmd_buff, nsub, last_acc>>
       ELSE /\ HasSpace(cmd_buff)
            /\ cmd_buff' = Accept(cmd_buff, Head(pend[c]))
            /\ nsub' = CountUp(nsub)
            /\ last_acc' = Accepted(Head(pend[c]))
            /\ pend' = [pend EXCEPT ![c] = Tail(pend[c])]
            /\ pc' = [pc EXCEPT ![c] = IF Len(pend[c]) = 1 THEN "idle" ELSE "sending"]
    /\ UNCHANGED <<loopVars, readVars, applied, wncVars>>

Min(a, b) == IF a <= b THEN a ELSE b

\* a zip that stops after the first pair
ZipFirst(ranges, values) ==
    IF ranges = <<>> \/ values = <<>> THEN <<>>
    ELSE << [range |-> Head(ranges), value |-> Head(values)] >>

\* reg_addr_ranges.iter().zip(values): pairs taken from both until one runs out
RECURSIVE Zip(_, _)
Zip(ranges, values) ==
    IF ranges = <<>> \/ values = <<>> THEN <<>>
    ELSE << [range |-> Head(ranges), value |-> Head(values)] >>
            \o Zip(Tail(ranges), Tail(values))

\* set_pdo_registers(slave_id, register, values) up to its first send: the
\* ranges are resolved (indexing panics on an unknown device or name), a
\* count mismatch is logged, and the zipped pairs are sent one by one
WriteArray(c, slave_id, register, values) ==
    /\ CanCall(c)
    /\ IF ~HasName(slave_id, register)
       THEN /\ pc' = [pc EXCEPT ![c] = "panicked"]
            /\ UNCHANGED pend
       ELSE LET es == Zip(get_reg_addr_ranges(slave_id, register), values)
            IN /\ pend' = [pend EXCEPT ![c] = es]
               /\ pc' = [pc EXCEPT ![c] = IF es = <<>> THEN "idle" ELSE "sending"]
    /\ UNCHANGED <<loopVars, cmd_buff, readVars, histVars>>

\* a wait_for_next_cycle that does not clear the flag: with the flag still
\* set by an earlier signal, the while condition lets the call return at once
WncEnterNoClear(c) ==
    /\ CanCall(c)
    /\ pc' = [pc EXCEPT ![c] = IF cycle_flag THEN "cycle_relock" ELSE "cycle_wait"]
    /\ wnc_sig' = [wnc_sig EXCEPT ![c] = FALSE]
    /\ wnc_pub' = [wnc_pub EXCEPT ![c] = FALSE]
    /\ UNCHANGED <<data, data_lock, ready_flag, cycle_flag, is_ready, lpc, cmd_buff, pend,
                   readVars, nsub, applied, last_acc, wnc_stale>>

\* wait_for_next_cycle up to its first wait: lock, *next_cycle = false, and,
\* the flag being false, cvar.wait releases the lock and blocks
WncEnter(c) ==
    /\ CanCall(c)
    /\ cycle_flag' = FALSE
    /\ pc' = [pc EXCEPT ![c] = "cycle_wait"]
    /\ wnc_sig' = [wnc_sig EXCEPT ![c] = FALSE]
    /\ wnc_pub' = [wnc_pub EXCEPT ![c] = FALSE]
    /\ UNCHANGED <<data, data_lock, ready_flag, is_ready, lpc, cmd_buff, pend, readVars,
                   nsub, applied, last_acc, wnc_stale>>

\* cvar.wait returns in wait_for_next_cycle: the lock is held again and the
\* while condition is tested; the call returns if the flag is set
WncRelock(c) ==
    /\ pc[c] = "cycle_relock"
    /\ IF cycle_flag
       THEN /\ pc' = [pc EXCEPT ![c] = "idle"]
            /\ wnc_sig' = [wnc_sig EXCEPT ![c] = FALSE]
            /\ wnc_pub' = [wnc_pub EXCEPT ![c] = FALSE]
            /\ wnc_stale' = [wnc_stale EXCEPT ![c] = TRUE]
       ELSE /\ pc' = [pc EXCEPT ![c] = "cycle_wait"]
            /\ UNCHANGED wncVars
    /\ UNCHANGED <<loopVars, cmd_buff, pend, readVars, nsub, applied, last_acc>>

\* wait_for_ready up to its first wait: lock, *ready = false, cvar.wait
WfrEnter(c) ==
    /\ CanMove(c)
    /\ ready_flag' = FALSE
    /\ pc' = [pc EXCEPT ![c] = "ready_wait"]
    /\ UNCHANGED <<data, data_lock, cycle_flag, is_ready, lpc, cmd_buff, pend, readVars,
                   histVars>>

\* cvar.wait returns in wait_for_ready: the call returns if the flag is set
WfrRelock(c) ==
    /\ pc[c] = "ready_relock"
    /\ pc' = [pc EXCEPT ![c] = IF ready_flag THEN "idle" ELSE "ready_wait"]
    /\ UNCHANGED <<loopVars, cmd_buff, pend, readVars, histVars>>

\* Condvar::wait may return with no notification (a spurious wakeup)
SpuriousWake(c) ==
    /\ \/ pc[c] = "cycle_wait" /\ pc' = [pc EXCEPT ![c] = "cycle_relock"]
       \/ pc[c] = "ready_wait" /\ pc' = [pc EXCEPT ![c] = "ready_relock"]
    /\ UNCHANGED <<loopVars, cmd_buff, pend, readVars, histVars>>

\* entries submitted so far or about to be
RECURSIVE SumLen(_, _)
SumLen(f, S) == IF S = {} THEN 0
                ELSE LET c == CHOOSE x \in S : TRUE IN Len(f[c]) + SumLen(f, S \ {c})
Issued == nsub + SumLen(pend, Clients)

\* arguments of the array calls
ArrayArgs == { <<0, "X">>, <<0, "Y">>, <<0, "Z">>, <<1, "X">> }

\* ------------------------------------------------------- specifications
\* the steps of the loop thread
LoopNext ==
    \/ Receive /\ UNCHANGED scen
    \/ Publish /\ UNCHANGED scen
    \/ Signal /\ UNCHANGED scen
    \/ Drain /\ UNCHANGED scen
    \/ Send /\ UNCHANGED scen
    \/ ReadyCheck /\ UNCHANGED scen

\* The general specification: the loop and NClients clients calling the API.
Next ==
    \/ LoopNext
    \/ \E c \in Clients, a \in RegArgs : Read(c, a[1], a[2], a[3]) /\ UNCHANGED scen
    \/ \E c \in Clients, a \in RegArgs, v \in ValueArgs :
          Issued < MaxWrites /\ Write(c, a[1], a[2], a[3], v) /\ UNCHANGED scen
    \/ \E c \in Clients, a \in ArrayArgs : ReadArrayBegin(c, a[1], a[2]) /\ UNCHANGED scen
    \/ \E c \in Clients : ReadArrayStep(c) /\ UNCHANGED scen
    \/ \E c \in Clients : WncEnter(c) /\ UNCHANGED scen
    \/ \E c \in Clients : WncRelock(c) /\ UNCHANGED scen
    \/ \E c \in Clients : WfrEnter(c) /\ UNCHANGED scen
    \/ \E c \in Clients : WfrRelock(c) /\ UNCHANGED scen
    \/ \E c \in Clients : SpuriousWake(c) /\ UNCHANGED scen

Spec == Init /\ [][Next]_vars

\* The gate specification: the loop and the thread that owns the controller,
\* which calls the two wait operations one after the other in any order.  The
\* loop thread and a woken waiter are scheduled (weak fairness); a spurious
\* wakeup, a new call and a bus fault may or may not happen.
Owner == 1

GateNext ==
    \/ LoopNext
    \/ WncEnter(Owner) /\ UNCHANGED scen
    \/ WncRelock(Owner) /\ UNCHANGED scen
    \/ WfrEnter(Owner) /\ UNCHANGED scen
    \/ WfrRelock(Owner) /\ UNCHANGED scen
    \/ SpuriousWake(Owner) /\ UNCHANGED scen

GateSpec ==
    /\ Init
    /\ [][GateNext]_vars
    /\ WF_vars(LoopNext)
    /\ WF_vars(WncRelock(Owner) /\ UNCHANGED scen)
    /\ WF_vars(WfrRelock(Owner) /\ UNCHANGED scen)

\* The queue specification: the loop and one client writing the first "X"
\* register over and over, up to MaxQueueWrites times.
QueueNext ==
    \/ LoopNext
    \/ \E v \in ValueArgs :
          Issued < MaxQueueWrites /\ Write(Owner, 0, "X", 0, v) /\ UNCHANGED scen
    \/ SendOne(Owner) /\ UNCHANGED scen

QueueSpec ==
    /\ Init
    /\ [][QueueNext]_vars
    /\ WF_vars(LoopNext)
    /\ WF_vars(SendOne(Owner) /\ UNCHANGED scen)

\* The round-trip specification: after one completed cycle, one client writes
\* a value to an output register, calls wait_for_next_cycle once or twice and
\* reads the register back.
RtRegs == { <<0, "X", 0>>, <<0, "X", 1>> }
RtValues == { <<b>> : b \in Bytes }
RtWaits == {1, 2}

RtNext ==
    \/ Receive /\ UNCHANGED scen
    \/ Publish /\ UNCHANGED scen
    \/ Signal /\ UNCHANGED scen
    \/ Drain /\ UNCHANGED scen
    \/ Send /\ UNCHANGED scen
    \/ ReadyCheck /\ rt' = [rt EXCEPT !.cycled = @ \/ lpc' = "receive"] /\ UNCHANGED besidesRt
    \/ \E a \in RtRegs, v \in RtValues, n \in RtWaits :
          /\ rt.phase = "start" /\ rt.cycled
          /\ Write(Owner, a[1], a[2], a[3], v)
          /\ rt' = [rt EXCEPT !.phase = "written", !.waits = n, !.left = n, !.reg = a, !.val = v]
          /\ UNCHANGED besidesRt
    \/ /\ rt.phase = "written" /\ rt.left > 0
       /\ WncEnter(Owner)
       /\ UNCHANGED scen
    \/ /\ WncRelock(Owner)
       /\ rt' = [rt EXCEPT !.left = IF pc'[Owner] = "idle" THEN @ - 1 ELSE @]
       /\ UNCHANGED besidesRt
    \/ SpuriousWake(Owner) /\ UNCHANGED scen
    \/ /\ rt.phase = "written" /\ rt.left = 0
       /\ Read(Owner, rt.reg[1], rt.reg[2], rt.reg[3])
       /\ rt' = [rt EXCEPT !.phase = "done", !.got = ReadResult(rt.reg[1], rt.reg[2], rt.reg[3])]
       /\ UNCHANGED besidesRt

RtSpec == Init /\ [][RtNext]_vars

\* The waiters specification: the loop and NClients clients that call
\* wait_for_next_cycle over and over.  The loop thread and every woken waiter
\* are scheduled (weak fairness), and notify_one is taken to be fair among
\* the waiters: a client that waits at signal after signal is the one woken
\* at some of them (strong fairness of the signal that wakes it).
SignalWakes(c) == Signal /\ pc[c] = "cycle_wait" /\ pc'[c] = "cycle_relock"

WaitersNext ==
    \/ LoopNext
    \/ \E c \in Clients : WncEnter(c) /\ UNCHANGED scen
    \/ \E c \in Clients : WncRelock(c) /\ UNCHANGED scen
    \/ \E c \in Clients : SpuriousWake(c) /\ UNCHANGED scen

WaitersSpec ==
    /\ Init
    /\ [][WaitersNext]_vars
    /\ WF_vars(LoopNext)
    /\ \A c \in Clients : WF_vars(WncRelock(c) /\ UNCHANGED scen)
    /\ \A c \in Clients : SF_vars(SignalWakes(c) /\ UNCHANGED scen)

\* The array read specification: the loop and one client that writes and
\* calls get_pdo_registers; rmix records a publish that falls between two
\* element reads of the call under way.
BetweenElements(c) == pc[c] = "reading" /\ racc[c] # <<>>

TornNext ==
    \/ Receive /\ UNCHANGED scen
    \/ /\ Publish
       /\ rmix' = [c \in Clients |-> rmix[c] \/ BetweenElements(c)]
       /\ UNCHANGED besidesRmix
    \/ Signal /\ UNCHANGED scen
    \/ Drain /\ UNCHANGED scen
    \/ Send /\ UNCHANGED scen
    \/ ReadyCheck /\ UNCHANGED scen
    \/ \E a \in RtRegs, v \in RtValues :
          Issued < MaxWrites /\ Write(Owner, a[1], a[2], a[3], v) /\ UNCHANGED scen
    \/ \E a \in ArrayArgs :
          /\ ReadArrayBegin(Owner, a[1], a[2])
          /\ rmix' = [rmix EXCEPT ![Owner] = FALSE]
          /\ UNCHANGED besidesRmix
    \/ ReadArrayStep(Owner) /\ UNCHANGED scen

TornSpec == Init /\ [][TornNext]_vars

\* The drain specification: the loop and NClients clients that write the
\* first "X" register over and over, without end.  Every thread is scheduled
\* (weak fairness of the loop and of each client's next write), and a blocked
\* send gets the room the loop makes (strong fairness of each blocked send).
WriteX(c) == \E v \in RtValues : Write(c, 0, "X", 0, v)

DrainNext ==
    \/ LoopNext
    \/ \E c \in Clients : WriteX(c) /\ UNCHANGED scen
    \/ \E c \in Clients : SendOne(c) /\ UNCHANGED scen

DrainSpec ==
    /\ Init
    /\ [][DrainNext]_vars
    /\ WF_vars(LoopNext)
    /\ \A c \in Clients : WF_vars(WriteX(c) /\ UNCHANGED scen)
    /\ \A c \in Clients : SF_vars(SendOne(c) /\ UNCHANGED scen)

\* one fallible step of open(): it succeeds, or it fails and open() ends; after
\* the last one (master.activate) the loop thread is spawned and the
\* controller returned
OpenStep ==
    /\ opening.res = "running"
    /\ \/ /\ opening.step < Len(OpenSteps)
          /\ opening' = [opening EXCEPT !.step = @ + 1]
          /\ UNCHANGED lpc
       \/ /\ opening.step = Len(OpenSteps)
          /\ opening' = Opened
          /\ lpc' = "receive"
       \/ /\ opening' = [opening EXCEPT !.res = FailureOf(OpenSteps[opening.step])]
          /\ UNCHANGED lpc
    /\ UNCHANGED <<data, data_lock, ready_flag, cycle_flag, is_ready, cmd_buff,
                   pc, pend, readVars, histVars, besidesOpening>>

\* whether the caller of open() holds a controller
HasController == opening.res = "Ok"

\* The open specification: open() from its first driver call on, then the
\* loop and the owner of the controller reading, writing and waiting.
OpenNext ==
    \/ OpenStep
    \/ LoopNext
    \/ \E a \in RegArgs : HasController /\ Read(Owner, a[1], a[2], a[3]) /\ UNCHANGED scen
    \/ \E a \in RegArgs, v \in ValueArgs :
          HasController /\ Issued < MaxWrites /\ Write(Owner, a[1], a[2], a[3], v)
             /\ UNCHANGED scen
    \/ HasController /\ WncEnter(Owner) /\ UNCHANGED scen
    \/ WncRelock(Owner) /\ UNCHANGED scen
    \/ HasController /\ WfrEnter(Owner) /\ UNCHANGED scen
    \/ WfrRelock(Owner) /\ UNCHANGED scen
    \/ SpuriousWake(Owner) /\ UNCHANGED scen

OpenSpec == InitOpen /\ [][OpenNext]_vars

\* The array specification: the loop and one client calling
\* set_pdo_registers, up to MaxArrayCalls times, with up to MaxArrayLen
\* one-byte values.
RECURSIVE SeqsUpTo(_, _)
SeqsUpTo(S, n) ==
    IF n = 0 THEN {<<>>}
    ELSE LET shorter == SeqsUpTo(S, n - 1)
         IN shorter \cup {Append(q, x) : q \in shorter, x \in S}
ArrayValues == SeqsUpTo(RtValues, MaxArrayLen)

\* the entry the channel accepted last, as the pair that was sent
LastSent(q) == [range |-> q[Len(q)].range, value |-> q[Len(q)].value]

ArrayNext ==
    \/ LoopNext
    \/ \E a \in ArrayArgs, vs \in ArrayValues :
          /\ wa.calls < MaxArrayCalls
          /\ WriteArray(Owner, a[1], a[2], vs)
          /\ wa' = [calls |-> wa.calls + 1, reg |-> a, vals |-> vs, acc |-> <<>>]
          /\ UNCHANGED besidesWa
    \/ /\ SendOne(Owner)
       /\ wa' = [wa EXCEPT !.acc = IF nsub' = nsub THEN @ ELSE Append(@, LastSent(cmd_buff'))]
       /\ UNCHANGED besidesWa

ArraySpec == Init /\ [][ArrayNext]_vars

\* The name lookup specification: on a bus of up to MaxSlaves slaves, each
\* reporting one of a few names, an id of get_slave_ids is handed to
\* get_slave_name and the name found to get_slave_id.
SlaveNameSet == {"epos", "orbita", "io"}
Buses == SeqsUpTo(SlaveNameSet, MaxSlaves)

\* slave_names after the inserts for the positions 0..k-1: an insert under a
\* name already present replaces the position stored for it
RECURSIVE NamesAfter(_, _)
NamesAfter(bus, k) ==
    IF k = 0 THEN <<>>
    ELSE LET m == NamesAfter(bus, k - 1)
         IN [n \in DOMAIN m \cup {bus[k]} |-> IF n = bus[k] THEN k - 1 ELSE m[n]]

\* SlaveNames built by init_master
slave_names(bus) == NamesAfter(bus, Len(bus))

\* the keys of offsets (every position of the bus), sorted
get_slave_ids(bus) == [k \in 1..Len(bus) |-> k - 1]

\* the name whose stored position is slave_id, if any
get_slave_name(bus, slave_id) ==
    LET m == slave_names(bus)
        hits == {n \in DOMAIN m : m[n] = slave_id}
    IN IF hits = {} THEN None ELSE Some(CHOOSE n \in hits : TRUE)

\* the position stored for slave_name, if any
get_slave_id(bus, slave_name) ==
    LET m == slave_names(bus)
    IN IF slave_name \in DOMAIN m THEN Some(m[slave_name]) ELSE None

LookupName ==
    /\ nm.phase = "start"
    /\ \E k \in DOMAIN get_slave_ids(nm.bus) :
          LET id == get_slave_ids(nm.bus)[k]
          IN nm' = [nm EXCEPT !.phase = "named", !.id = id,
                              !.name = get_slave_name(nm.bus, id)]
    /\ UNCHANGED <<progVars, besidesNm>>

LookupId ==
    /\ nm.phase = "named"
    /\ nm' = [nm EXCEPT !.phase = "done",
                        !.back = IF nm.name = None THEN None
                                 ELSE get_slave_id(nm.bus, nm.name[1])]
    /\ UNCHANGED <<progVars, besidesNm>>

InitNames == \E bus \in Buses : InitWith("receive", Opened, NmStart(bus))

NamesNext == LookupName \/ LookupId

NamesSpec == InitNames /\ [][NamesNext]_vars

\* ------------------------------------------------------------ properties
InWaitForNextCycle(c) == pc[c] \in {"cycle_wait", "cycle_relock"}
WncReturns(c) == pc[c] = "cycle_relock" /\ pc'[c] = "idle"
PublishStep == lpc = "publish" /\ lpc' = "signal"
ValidRegs == {a \in RegArgs : HasReg(a[1], a[2], a[3])}
OutputBytes == (1..ImageLen) \ InputBytes

\* C1: once the loop has set the readiness flag, the flag stays true in every
\* later state, whatever the clients call (the flag is set by the loop only).
C1_ReadinessNeverReverts == [][ready_flag => ready_flag']_vars

\* C2: a wait_for_ready call that begins after the loop fired the readiness
\* gate returns.  (The loop has fired and the flag is false exactly when the
\* call in progress began after the firing.)
C2_ReadyCallReturns ==
    (InWaitForReady(Owner) /\ is_ready /\ ~ready_flag) ~> (pc[Owner] = "idle" \/ lpc = "dead")

\* C3: with one client calling wait_for_next_cycle sequentially, every call
\* returns as long as the loop keeps iterating.
C3_EveryWaitReturns ==
    InWaitForNextCycle(Owner) ~> (pc[Owner] = "idle" \/ lpc = "dead")

\* the client returned from one wait_for_next_cycle and waits in its next one
C3_Witness == pc[Owner] = "cycle_wait" /\ wnc_stale[Owner] /\ lpc # "dead"

\* C4 as stated: every return of wait_for_next_cycle follows a publication
\* made after the call began, and two consecutive returns of one client have
\* a publication between them.
C4_ReturnAfterPublication ==
    [][\A c \in Clients : WncReturns(c) => (wnc_pub[c] /\ ~wnc_stale[c])]_vars

\* C4 as amended: every return of wait_for_next_cycle follows a cycle-gate
\* signal given after the call began.
C4_ReturnAfterSignal ==
    [][\A c \in Clients : WncReturns(c) => wnc_sig[c]]_vars

\* a call that began between the publish and the signal of one iteration is
\* about to return
C4_Witness ==
    \E c \in Clients : pc[c] = "cycle_relock" /\ cycle_flag /\ wnc_sig[c] /\ ~wnc_pub[c]

\* C5 as stated: write v, one wait_for_next_cycle, read: the read returns v.
C5_RoundTripOneWait ==
    (rt.phase = "done" /\ rt.waits = 1) => rt.got = RetSome(rt.val)

\* C5 as amended: write v, two wait_for_next_cycle calls, read: the read
\* returns v.
C5_RoundTripTwoWaits ==
    (rt.phase = "done" /\ rt.waits = 2) => rt.got = RetSome(rt.val)

\* the scenario with two waits ended, for a value the buffer did not hold
C5_Witness == rt.phase = "done" /\ rt.waits = 2 /\ rt.val = <<1>> /\ rt.got = RetSome(<<1>>)

\* C6: what read returns for a registered (device, name, index) changes at
\* the loop's publish step only, which makes it the bytes the exchange buffer
\* holds then; a drain step leaves it as it is.
C6_SnapshotChangesAtPublishOnly ==
    [][\A a \in ValidRegs :
          IF PublishStep
          THEN ReadResult(a[1], a[2], a[3])'
                  = RetSome(Slice(data, get_reg_addr_range(a[1], a[2], a[3])))
          ELSE ReadResult(a[1], a[2], a[3])' = ReadResult(a[1], a[2], a[3])]_vars

\* a drained write is in the exchange buffer and not in the snapshot
C6_Witness ==
    /\ data_lock # None
    /\ applied # <<>>
    /\ \E k \in OutputBytes : data_lock[1][k] # data[k]

\* C7: read with an unknown device, an unknown name or an index out of range
\* returns nothing and the calling thread goes on.
C7_ReadMisuseReturnsNothing ==
    [][\A c \in Clients, a \in RegArgs \ ValidRegs :
          Read(c, a[1], a[2], a[3])
             => (ReadResult(a[1], a[2], a[3]) = RetNone /\ pc'[c] = "idle")]_vars

\* C8: the snapshot is absent until the first publish step and present from
\* then on; read and read_array on registered names return nothing exactly
\* while it is absent.
C8_ImagePresence ==
    [][/\ data_lock # None => data_lock' # None
       /\ (data_lock = None /\ ~PublishStep) => data_lock' = None
       /\ PublishStep => data_lock' # None
       /\ \A a \in ValidRegs :
             (ReadResult(a[1], a[2], a[3])' = RetNone) <=> (data_lock' = None)
       /\ \A c \in Clients :
             (pc[c] = "reading" /\ pc'[c] = "idle")
                => ((ReadArrayResult(c) = RetNone) <=> (data_lock = None))]_vars

\* a read_array is under way after the first publish
C8_Witness == data_lock # None /\ \E c \in Clients : pc[c] = "reading" /\ racc[c] # <<>>

Ids(q) == {q[k].id : k \in DOMAIN q}

\* C9: while the loop runs, every accepted entry is either queued or was
\* applied once; the queue never holds more than its capacity; a write that
\* finds the queue full blocks with the queue untouched, and returns only by
\* having its entry accepted; a blocked write returns, and every accepted
\* entry is applied, as long as the loop keeps iterating.
C9_WritesAppliedOnce ==
    /\ [](lpc # "dead" =>
            /\ Len(cmd_buff) <= QueueCap
            /\ Ids(cmd_buff) \cup {applied[k] : k \in DOMAIN applied} = 1..nsub
            /\ Len(cmd_buff) + Len(applied) = nsub)
    /\ [][\A v \in ValueArgs :
            (Write(Owner, 0, "X", 0, v) /\ lpc # "dead") =>
                IF Len(cmd_buff) = QueueCap
                THEN pc'[Owner] = "sending" /\ cmd_buff' = cmd_buff /\ nsub' = nsub
                ELSE pc'[Owner] = "idle" /\ nsub' = nsub + 1
                     /\ cmd_buff'[Len(cmd_buff')].value = v]_vars
    /\ [][(pc[Owner] = "sending" /\ pc'[Owner] = "idle") =>
            /\ nsub' = nsub + 1
            /\ Len(cmd_buff') = Len(cmd_buff) + 1
            /\ cmd_buff'[Len(cmd_buff')].value = pend[Owner][1].value]_vars
    /\ (pc[Owner] = "sending") ~> (pc[Owner] = "idle" \/ lpc = "dead")
    /\ \A k \in 1..MaxQueueWrites : (nsub >= k) ~> (Len(applied) >= k \/ lpc = "dead")

\* a write is blocked on the full queue
C9_Witness == Len(cmd_buff) = QueueCap /\ pc[Owner] = "sending" /\ lpc # "dead"

\* C10: entries are applied in the order they were accepted: the applied ids
\* are 1, 2, ... and the queued ones follow in order; so once every accepted
\* entry covering an output byte is drained, the byte holds the value of the
\* last accepted one.
C10_FifoOrder ==
    /\ applied = [k \in 1..Len(applied) |-> k]
    /\ \A i \in DOMAIN cmd_buff : cmd_buff[i].id = Len(applied) + i
    /\ lpc # "dead" =>
          \A b \in OutputBytes :
             (/\ last_acc[b] # -1
              /\ \A i \in DOMAIN cmd_buff : ~(b > cmd_buff[i].range.lo /\ b <= cmd_buff[i].range.hi))
                => data[b] = last_acc[b]

\* two writes to the same range were drained, the later one with another value
C10_Witness ==
    /\ Len(applied) >= 2 /\ cmd_buff = <<>> /\ lpc # "dead"
    /\ last_acc[1] = 1 /\ data[1] = 1

\* C11: a set_pdo_registers call on a registered name sends exactly
\* min(number of values, number of records of the name) entries, the k-th
\* value with the k-th record's range, in order; a count mismatch makes the
\* call neither fail nor send anything for the unpaired values or records.
C11_WriteArrayPairs ==
    (wa.calls > 0 /\ HasName(wa.reg[1], wa.reg[2])) =>
        LET ranges == get_reg_addr_ranges(wa.reg[1], wa.reg[2])
            n == Min(Len(wa.vals), Len(ranges))
            expected == [k \in 1..n |-> [range |-> ranges[k], value |-> wa.vals[k]]]
        IN /\ pc[Owner] = "sending" => (pend[Owner] # <<>> /\ wa.acc \o pend[Owner] = expected)
           /\ pc[Owner] = "idle" => (pend[Owner] = <<>> /\ wa.acc = expected)
           /\ pc[Owner] = "panicked" => lpc = "dead"

\* a call with three values on a name of two records returned
C11_Witness ==
    /\ wa.calls > 0 /\ wa.reg = <<0, "X">> /\ Len(wa.vals) = 3
    /\ pc[Owner] = "idle" /\ Len(wa.acc) = 2 /\ lpc # "dead"

\* open() ended without a controller
OpenFailed == opening.res \in {"Err", "Panic"}

\* C12: when a step of the initialization fails, open() returns an error,
\* no controller exists (no call on one is ever made) and the loop thread
\* is never spawned.
C12_InitFailureIsReported ==
    OpenFailed =>
        /\ opening.res = "Err"
        /\ lpc = "unspawned"
        /\ \A c \in Clients : pc[c] = "idle"

\* the steps of one iteration in program order
LoopOrder ==
    { <<"receive", "publish">>, <<"publish", "signal">>, <<"signal", "drain">>,
      <<"drain", "send">>, <<"send", "ready_check">>, <<"ready_check", "receive">> }

\* C13: a failed receive, process, queue or send ends the loop thread there:
\* the loop leaves a step only for the next step in program order or for
\* good (no retry), the failing step publishes, signals and updates nothing,
\* and once the thread has ended no snapshot is published, no gate is set,
\* no entry is applied and the bus is not sent to again.
C13_FaultEndsLoop ==
    [][/\ lpc' # lpc => (<<lpc, lpc'>> \in LoopOrder \/ lpc' = "dead")
       /\ (lpc # "dead" /\ lpc' = "dead") =>
             /\ data_lock' = data_lock /\ applied' = applied
             /\ cycle_flag' = cycle_flag /\ ready_flag' = ready_flag /\ is_ready' = is_ready
             /\ pc' = pc
       /\ lpc = "dead" =>
             /\ lpc' = "dead"
             /\ data_lock' = data_lock /\ data' = data /\ applied' = applied
             /\ is_ready' = is_ready
             /\ cycle_flag' => cycle_flag
             /\ ready_flag' => ready_flag]_vars

\* the loop ended after it had published, and a client waits for the next cycle
C13_Witness ==
    /\ lpc = "dead" /\ data_lock # None /\ ~cycle_flag
    /\ \E c \in Clients : pc[c] = "cycle_wait"

\* wait_for_ready returns
WfrReturns(c) == pc[c] = "ready_relock" /\ pc'[c] = "idle"

\* C14: the loop sets the readiness flag once: at the first state query
\* (made after the iteration's send) that reports link up and al_states = 8,
\* at no query that reports anything else, and never again afterwards; no
\* wait_for_ready returns before that.
C14_ReadyFiresOnce ==
    [][/\ (~ready_flag /\ ready_flag') =>
             (lpc = "ready_check" /\ lpc' = "receive" /\ ~is_ready /\ is_ready')
       /\ is_ready => is_ready'
       /\ \A l \in BOOLEAN, a \in AlStates :
             (lpc = "ready_check" /\ StateQuery(l, a)) =>
                /\ is_ready' <=> (l /\ a = AlOp)
                /\ ready_flag' <=> (l /\ a = AlOp)
       /\ (lpc' = "ready_check" /\ lpc # lpc') => lpc = "send"
       /\ \A c \in Clients : WfrReturns(c) => is_ready]_vars

\* a wait_for_ready woken by the firing is about to return
C14_Witness == pc[Owner] = "ready_relock" /\ ready_flag /\ is_ready

\* C15: with several clients calling wait_for_next_cycle, every call returns
\* as long as the loop keeps iterating.
C15_NoLostWakeup ==
    \A c \in Clients : InWaitForNextCycle(c) ~> (pc[c] = "idle" \/ lpc = "dead")

\* C16: the elements a get_pdo_registers call returns were all read from one
\* snapshot: no publish falls between two element reads of a call that
\* returns values.
C16_ReadArrayOneSnapshot ==
    [][\A c \in Clients :
          (pc[c] = "reading" /\ pc'[c] = "idle" /\ ReadArrayResult(c) # RetNone)
             => ~rmix[c]]_vars

\* C17: the readiness flag is set only after a snapshot was published, so
\* from the return of wait_for_ready on the snapshot is present and a read of
\* a registered (device, name, index) returns bytes.
C17_ReadyImpliesImage ==
    [][/\ \A c \in Clients : WfrReturns(c) => is_ready'
       /\ is_ready => is_ready'
       /\ ready_flag' => is_ready'
       /\ is_ready' =>
             /\ data_lock' # None
             /\ \A a \in ValidRegs : ReadResult(a[1], a[2], a[3])'.tag = "Some"]_vars

\* a wait_for_ready is about to return while the snapshot already differs
\* from the exchange buffer
C17_Witness ==
    /\ \E c \in Clients : pc[c] = "ready_relock"
    /\ ready_flag /\ data_lock # None /\ data_lock[1] # data

\* C18: the drain of an iteration ends: from its first try_recv the loop
\* reaches that iteration's send (or ends on a fault), whatever the clients
\* submit meanwhile.
C18_DrainReachesSend == (lpc = "drain") ~> (lpc = "send" \/ lpc = "dead")

\* the values whose length is not that of the first "X" register's range
MisfitValues ==
    {v \in ValueArgs : ~FitsRange([range |-> get_reg_addr_range(0, "X", 0), value |-> v])}

\* C19: a write whose value has not the length of its range is taken like
\* any other (queued if there is room, blocked if not, never refused); the
\* drain turn that receives it ends the loop thread before the send with the
\* exchange buffer and the snapshot as they were; afterwards nothing is
\* published or signalled.
C19_MisfitEndsLoop ==
    [][/\ \A v \in MisfitValues :
             (Write(Owner, 0, "X", 0, v) /\ lpc # "dead") =>
                IF Len(cmd_buff) < QueueCap
                THEN /\ pc'[Owner] = "idle"
                     /\ Len(cmd_buff') = Len(cmd_buff) + 1
                     /\ cmd_buff'[Len(cmd_buff')].value = v
                ELSE pc'[Owner] = "sending" /\ pend'[Owner][1].value = v
       /\ (Drain /\ cmd_buff # <<>> /\ ~FitsRange(cmd_buff[RecvIndex(cmd_buff)])) =>
             /\ lpc' = "dead"
             /\ data' = data /\ data_lock' = data_lock /\ cycle_flag' = cycle_flag
       /\ lpc = "dead" =>
             /\ lpc' = "dead"
             /\ data' = data /\ data_lock' = data_lock
             /\ cycle_flag' => cycle_flag]_vars

\* the drain is about to receive an entry of the wrong length, after it
\* applied others
C19_Witness ==
    /\ lpc = "drain" /\ cmd_buff # <<>> /\ ~FitsRange(cmd_buff[1])
    /\ applied # <<>> /\ data_lock # None

\* C20: for every id of get_slave_ids, get_slave_name finds a name, and
\* get_slave_id of that name is the id again, on every bus (two slaves
\* reporting one name included).
C20_NameIdRoundTrip ==
    /\ nm.phase \in {"named", "done"} => nm.name # None
    /\ nm.phase = "done" => nm.back = Some(nm.id)

====
